---- MODULE Spec2Model ----
(***************************************************************************)
(* The Specification pattern of src/specification/main.go: composable      *)
(* predicates over a User (leaves and the And/Or/Not combinators) and the  *)
(* checkAccess gate built on them.                                         *)
(*                                                                         *)
(* Specifications are Go pointers to structs: the model keeps them in a    *)
(* heap, a sequence of nodes addressed by their index.  A string is the    *)
(* sequence of its runes (Unicode code points); len() counts the bytes of  *)
(* its UTF-8 encoding and strings.ToLower maps it rune by rune.            *)
(***************************************************************************)
EXTENDS Integers, Sequences, FiniteSets, TLC

VARIABLES heap,          \* the specifications constructed so far
          args,          \* args[id]: the name argument node id was built from
          user,          \* the *User the calls are made on
          gate,          \* the closure returned by the latest checkAccess
          last,          \* the latest operation and what it returned
          err,           \* the error returned by the latest gate call
          out,           \* the console lines printed by the latest operation
          handlerCalls   \* handler invocations made by the latest gate call

vars == <<heap, args, user, gate, last, err, out, handlerCalls>>

RECURSIVE IsSatisfiedBy(_, _, _)
RECURSIVE AndLoop(_, _, _, _, _)
RECURSIVE OrLoop(_, _, _, _, _)
RECURSIVE AndLoopFirstOnly(_, _, _, _, _)
RECURSIVE OrLoopNoStop(_, _, _, _, _)
RECURSIVE OrLoopLastOnly(_, _, _, _, _)
RECURSIVE SumWidth(_, _)

(***************************************************************************)
(* Bounds of the explored inputs.                                          *)
(***************************************************************************)
MaxNameLen == 1
MaxThreshold == 2
MaxChildren == 2
MaxSpecs == 3
MaxLeafSpecs == 1

(***************************************************************************)
(* type UserType / type User                                               *)
(***************************************************************************)
Personal == 0
Admin == 1
SuperAdmin == 2

UserTypes == {Personal, Admin, SuperAdmin}

\* "Alex", "SuperAlex", "BooFoo", "BooFooLocked" as rune sequences
Alex == <<65, 108, 101, 120>>
SuperAlex == <<83, 117, 112, 101, 114, 65, 108, 101, 120>>
BooFoo == <<66, 111, 111, 70, 111, 111>>
BooFooLocked == <<66, 111, 111, 70, 111, 111, 76, 111, 99, 107, 101, 100>>

MainNames == {Alex, SuperAlex, BooFoo, BooFooLocked}

\* 'A', 'a', GREEK CAPITAL SIGMA, GREEK SMALL FINAL SIGMA
Alphabet == {65, 97, 931, 962}

GenNames == UNION {[1..k -> Alphabet] : k \in 0..MaxNameLen}

Names == MainNames \cup GenNames

Thresholds == (-1)..MaxThreshold

\* "", and "Super": a name one byte longer than the threshold of IsNameShort4
MainSpecNames == MainNames \cup {<<>>, SubSeq(SuperAlex, 1, 5)}

Users == [Type : UserTypes, Name : MainSpecNames, Locked : BOOLEAN]

LeafUsers == [Type : UserTypes, Name : Names, Locked : BOOLEAN]

TreeUsers == [Type : {Admin}, Name : {Alex}, Locked : BOOLEAN]

\* the users main() builds
MainUser == [Type |-> Admin, Name |-> Alex, Locked |-> FALSE]
SupAdminUser == [Type |-> SuperAdmin, Name |-> SuperAlex, Locked |-> FALSE]
BooFooLockedUser == [Type |-> Personal, Name |-> BooFooLocked, Locked |-> TRUE]
BooFooUser == [Type |-> Personal, Name |-> BooFoo, Locked |-> FALSE]

TypeNames == [t \in UserTypes |->
                 CASE t = Personal -> "PERSONAL"
                   [] t = Admin -> "ADMIN"
                   [] OTHER -> "SUPER ADMIN"]

\* func (u User) String() string
String(u) == <<u.Name, TypeNames[u.Type], u.Locked>>

(***************************************************************************)
(* Go strings: unicode.ToLower, strings.ToLower, len                       *)
(***************************************************************************)
\* unicode.ToLower on Latin and Greek letters
ToLowerRune(r) ==
    IF r >= 65 /\ r <= 90 THEN r + 32
    ELSE IF (r >= 913 /\ r <= 929) \/ (r >= 931 /\ r <= 939) THEN r + 32
    ELSE r

ToLower(s) == [i \in 1..Len(s) |-> ToLowerRune(s[i])]

\* bytes of the UTF-8 encoding of a rune
Utf8Width(r) ==
    IF r < 128 THEN 1 ELSE IF r < 2048 THEN 2 ELSE IF r < 65536 THEN 3 ELSE 4

SumWidth(s, i) == IF i > Len(s) THEN 0 ELSE Utf8Width(s[i]) + SumWidth(s, i + 1)

\* len(s): the number of bytes of s
GoLen(s) == SumWidth(s, 1)

(***************************************************************************)
(* The specification structs and their constructors                        *)
(***************************************************************************)
Node(kind, specs, spec, typ, l, name) ==
    [kind |-> kind, specs |-> specs, spec |-> spec, typ |-> typ, l |-> l,
     name |-> name]

And(specs) == Node("And", specs, 0, 0, 0, <<>>)

Or(specs) == Node("Or", specs, 0, 0, 0, <<>>)

Not(spec) == Node("Not", <<>>, spec, 0, 0, <<>>)

TypeSpecification(typ) == Node("Type", <<>>, 0, typ, 0, <<>>)

NameShort(l) == Node("NameLength", <<>>, 0, 0, l, <<>>)

Name(name) == Node("Name", <<>>, 0, 0, 0, ToLower(name))

LockedSpecification == Node("Locked", <<>>, 0, 0, 0, <<>>)

(***************************************************************************)
(* IsSatisfiedBy.  An activation returns its result and the calls it made  *)
(* on its children, in the order it made them.                             *)
(***************************************************************************)
Ret(b) == [ret |-> b, calls |-> <<>>]

ChildCall(pos, id, r) == [pos |-> pos, spec |-> id, ret |-> r.ret]

\* faulty variant: only the first child is consulted
AndLoopFirstOnly(h, specs, i, u, calls) ==
    IF i > Len(specs) THEN [ret |-> TRUE, calls |-> calls]
    ELSE LET r == IsSatisfiedBy(h, specs[i], u)
         IN [ret |-> r.ret, calls |-> Append(calls, ChildCall(i, specs[i], r))]

\* for _, s := range s.specs { if !s.IsSatisfiedBy(u) { return false } }; return true
AndLoop(h, specs, i, u, calls) ==
    IF i > Len(specs) THEN [ret |-> TRUE, calls |-> calls]
    ELSE LET r == IsSatisfiedBy(h, specs[i], u)
             log == Append(calls, ChildCall(i, specs[i], r))
         IN IF ~r.ret THEN [ret |-> FALSE, calls |-> log]
            ELSE AndLoop(h, specs, i + 1, u, log)

AndIsSatisfiedBy(h, s, u) == AndLoop(h, s.specs, 1, u, <<>>)

\* faulty variant: the loop goes on after a satisfied child
OrLoopNoStop(h, specs, i, u, calls) ==
    IF i > Len(specs)
    THEN [ret |-> \E k \in 1..Len(calls) : calls[k].ret, calls |-> calls]
    ELSE LET r == IsSatisfiedBy(h, specs[i], u)
         IN OrLoopNoStop(h, specs, i + 1, u, Append(calls, ChildCall(i, specs[i], r)))

\* faulty variant: the result is that of the last child
OrLoopLastOnly(h, specs, i, u, calls) ==
    IF i > Len(specs) THEN [ret |-> FALSE, calls |-> calls]
    ELSE LET r == IsSatisfiedBy(h, specs[i], u)
             log == Append(calls, ChildCall(i, specs[i], r))
         IN IF r.ret /\ i = Len(specs) THEN [ret |-> TRUE, calls |-> log]
            ELSE OrLoopLastOnly(h, specs, i + 1, u, log)

\* for _, s := range s.specs { if s.IsSatisfiedBy(u) { return true } }; return false
OrLoop(h, specs, i, u, calls) ==
    IF i > Len(specs) THEN [ret |-> FALSE, calls |-> calls]
    ELSE LET r == IsSatisfiedBy(h, specs[i], u)
             log == Append(calls, ChildCall(i, specs[i], r))
         IN IF r.ret THEN [ret |-> TRUE, calls |-> log]
            ELSE OrLoop(h, specs, i + 1, u, log)

OrIsSatisfiedBy(h, s, u) == OrLoop(h, s.specs, 1, u, <<>>)

\* faulty variant: the child's result is passed on as it is
NotIsSatisfiedByNoNegation(h, s, u) ==
    LET r == IsSatisfiedBy(h, s.spec, u)
    IN [ret |-> r.ret, calls |-> <<ChildCall(1, s.spec, r)>>]

NotIsSatisfiedBy(h, s, u) ==
    LET r == IsSatisfiedBy(h, s.spec, u)
    IN [ret |-> ~r.ret, calls |-> <<ChildCall(1, s.spec, r)>>]

\* faulty variant: any type up to the configured one satisfies
TypeIsSatisfiedByAtMost(s, u) == Ret(s.typ >= u.Type)

TypeIsSatisfiedBy(s, u) == Ret(s.typ = u.Type)

\* faulty variant: strict comparison
NameLengthIsSatisfiedByStrict(s, u) == Ret(GoLen(u.Name) < s.l)

NameLengthIsSatisfiedBy(s, u) == Ret(GoLen(u.Name) <= s.l)

NameIsSatisfiedBy(s, u) == Ret(ToLower(u.Name) = s.name)

LockedIsSatisfiedBy(s, u) == Ret(u.Locked)

\* the interface call spec.IsSatisfiedBy(u): dispatch on the dynamic type
IsSatisfiedBy(h, id, u) ==
    LET s == h[id]
    IN CASE s.kind = "And" -> AndIsSatisfiedBy(h, s, u)
         [] s.kind = "Or" -> OrIsSatisfiedBy(h, s, u)
         [] s.kind = "Not" -> NotIsSatisfiedBy(h, s, u)
         [] s.kind = "Type" -> TypeIsSatisfiedBy(s, u)
         [] s.kind = "NameLength" -> NameLengthIsSatisfiedBy(s, u)
         [] s.kind = "Name" -> NameIsSatisfiedBy(s, u)
         [] OTHER -> LockedIsSatisfiedBy(s, u)

(***************************************************************************)
(* Predefined rules (package variables, initialised before main)           *)
(***************************************************************************)
IsPersonal == 1
IsAdmin == 2
IsSuperAdmin == 3
AnyAdmin == 4
NotAdmin == 5
NotSuperAdmin == 6
IsNameShort4 == 7
Locked == 8
NotLocked == 9
NotAnyAdminArg == 10
NotIsNameShort4Arg == 11
ValidNameNotAdmin == 12

\* faulty variant: the name-length rule is not negated
PredefinedShortNames ==
    <<TypeSpecification(Personal), TypeSpecification(Admin),
      TypeSpecification(SuperAdmin), Or(<<IsAdmin, IsSuperAdmin>>),
      Not(AnyAdmin), Not(IsSuperAdmin), NameShort(4), LockedSpecification,
      Not(Locked), Not(AnyAdmin), Not(IsNameShort4),
      And(<<NotAnyAdminArg, NotLocked, IsNameShort4>>)>>

Predefined ==
    <<TypeSpecification(Personal), TypeSpecification(Admin),
      TypeSpecification(SuperAdmin), Or(<<IsAdmin, IsSuperAdmin>>),
      Not(AnyAdmin), Not(IsSuperAdmin), NameShort(4), LockedSpecification,
      Not(Locked), Not(AnyAdmin), Not(IsNameShort4),
      And(<<NotAnyAdminArg, NotLocked, NotIsNameShort4Arg>>)>>

\* the gates main() builds: name and handler
Gates == {<<"high level", "handlerSecret">>,
          <<"onlyValidUser", "handlerOnlyValidUser">>}

NoGate == [spec |-> 0, name |-> "", handler |-> ""]

NilErr == [nil |-> TRUE, msg |-> <<>>]

NoCall == [op |-> "init", spec |-> 0, ret |-> FALSE, calls |-> <<>>]

(***************************************************************************)
(* Operations                                                              *)
(***************************************************************************)
Ids == 1..Len(heap)

ChildLists == UNION {[1..k -> Ids] : k \in 0..MaxChildren}

\* a constructor call: allocate the struct and return its address
Alloc(node, arg) ==
    /\ heap' = Append(heap, node)
    /\ args' = Append(args, arg)
    /\ last' = [op |-> "new", spec |-> Len(heap) + 1, ret |-> FALSE, calls |-> <<>>]
    /\ err' = NilErr
    /\ out' = <<>>
    /\ handlerCalls' = 0
    /\ UNCHANGED <<user, gate>>

CallAnd(specs) == Alloc(And(specs), <<>>)

CallOr(specs) == Alloc(Or(specs), <<>>)

CallNot(spec) == Alloc(Not(spec), <<>>)

NewTypeSpecification(typ) == Alloc(TypeSpecification(typ), <<>>)

NewLockedSpecification == Alloc(LockedSpecification, <<>>)

CallNameShort(l) == Alloc(NameShort(l), <<>>)

CallName(name) == Alloc(Name(name), name)

\* user := &User{...}
NewUser(u) ==
    /\ user' = u
    /\ last' = [op |-> "user", spec |-> 0, ret |-> FALSE, calls |-> <<>>]
    /\ err' = NilErr
    /\ out' = <<>>
    /\ handlerCalls' = 0
    /\ UNCHANGED <<heap, args, gate>>

\* faulty variant: the evaluation lower-cases the user's name in place
UserIsSatisfiedByLowersName(spec) ==
    /\ spec \in Ids
    /\ LET r == IsSatisfiedBy(heap, spec, user)
       IN last' = [op |-> "eval", spec |-> spec, ret |-> r.ret, calls |-> r.calls]
    /\ user' = [user EXCEPT !.Name = ToLower(user.Name)]
    /\ err' = NilErr
    /\ out' = <<>>
    /\ handlerCalls' = 0
    /\ UNCHANGED <<heap, args, gate>>

\* func UserIsSatisfiedBy(u *User, spec SpecificationUser) bool
UserIsSatisfiedBy(spec) ==
    /\ spec \in Ids
    /\ LET r == IsSatisfiedBy(heap, spec, user)
       IN last' = [op |-> "eval", spec |-> spec, ret |-> r.ret, calls |-> r.calls]
    /\ err' = NilErr
    /\ out' = <<>>
    /\ handlerCalls' = 0
    /\ UNCHANGED <<heap, args, user, gate>>

\* func checkAccess(spec, name, handler) func(*User) error
checkAccess(spec, name, handler) ==
    /\ spec \in Ids
    /\ gate' = [spec |-> spec, name |-> name, handler |-> handler]
    /\ last' = [op |-> "checkAccess", spec |-> spec, ret |-> FALSE, calls |-> <<>>]
    /\ err' = NilErr
    /\ out' = <<>>
    /\ handlerCalls' = 0
    /\ UNCHANGED <<heap, args, user>>

\* faulty variant: the handler runs before the specification is consulted
GateCallHandlerFirst ==
    /\ gate.spec \in Ids
    /\ LET r == IsSatisfiedBy(heap, gate.spec, user)
       IN /\ last' = [op |-> "gate", spec |-> gate.spec, ret |-> r.ret,
                      calls |-> r.calls]
          /\ handlerCalls' = 1
          /\ IF ~r.ret
             THEN /\ err' = [nil |-> FALSE,
                             msg |-> <<gate.name, "access denied", String(user)>>]
                  /\ out' = <<<<"execute", gate.handler>>>>
             ELSE /\ err' = NilErr
                  /\ out' = <<<<"execute", gate.handler>>,
                              <<gate.name, "access granted", String(user)>>>>
    /\ UNCHANGED <<heap, args, user, gate>>

\* the closure returned by checkAccess, called on the user
GateCall ==
    /\ gate.spec \in Ids
    /\ LET r == IsSatisfiedBy(heap, gate.spec, user)
       IN /\ last' = [op |-> "gate", spec |-> gate.spec, ret |-> r.ret,
                      calls |-> r.calls]
          /\ IF ~r.ret
             THEN /\ err' = [nil |-> FALSE,
                             msg |-> <<gate.name, "access denied", String(user)>>]
                  /\ out' = <<>>
                  /\ handlerCalls' = 0
             ELSE /\ err' = NilErr
                  /\ out' = <<<<gate.name, "access granted", String(user)>>,
                              <<"execute", gate.handler>>>>
                  /\ handlerCalls' = 1
    /\ UNCHANGED <<heap, args, user, gate>>

(***************************************************************************)
(* Specifications                                                          *)
(***************************************************************************)
InitCommon ==
    /\ gate = NoGate
    /\ last = NoCall
    /\ err = NilErr
    /\ out = <<>>
    /\ handlerCalls = 0

\* main(): the predefined rules, any user, gates over the rules
Init ==
    /\ heap = Predefined
    /\ args = [i \in 1..Len(Predefined) |-> <<>>]
    /\ user = MainUser
    /\ InitCommon

Next ==
    \/ \E u \in Users : NewUser(u)
    \/ \E spec \in Ids : UserIsSatisfiedBy(spec)
    \/ \E spec \in Ids, g \in Gates : checkAccess(spec, g[1], g[2])
    \/ GateCall

Spec == Init /\ [][Next]_vars

\* leaf specifications built from any argument, evaluated on any user
InitLeaf ==
    /\ heap = <<>>
    /\ args = <<>>
    /\ user \in LeafUsers
    /\ InitCommon

RoomLeaf == Len(heap) < MaxLeafSpecs

NextLeaf ==
    \/ \E typ \in UserTypes : RoomLeaf /\ NewTypeSpecification(typ)
    \/ RoomLeaf /\ NewLockedSpecification
    \/ \E l \in Thresholds : RoomLeaf /\ CallNameShort(l)
    \/ \E name \in Names : RoomLeaf /\ CallName(name)
    \/ \E spec \in Ids : UserIsSatisfiedBy(spec)

SpecLeaf == InitLeaf /\ [][NextLeaf]_vars

\* specification trees built bottom-up over the locked leaf
InitTree ==
    /\ heap = <<>>
    /\ args = <<>>
    /\ user \in TreeUsers
    /\ InitCommon

Room == Len(heap) < MaxSpecs

NextTree ==
    \/ Room /\ NewLockedSpecification
    \/ \E specs \in ChildLists : Room /\ CallAnd(specs)
    \/ \E specs \in ChildLists : Room /\ CallOr(specs)
    \/ \E spec \in Ids : Room /\ CallNot(spec)
    \/ \E spec \in Ids : UserIsSatisfiedBy(spec)

SpecTree == InitTree /\ [][NextTree]_vars

(***************************************************************************)
(* Properties                                                              *)
(***************************************************************************)
Evaluated(kind) == last.op = "eval" /\ heap[last.spec].kind = kind

\* the result of child i of the evaluated combinator on the user
ChildResult(i) == IsSatisfiedBy(heap, heap[last.spec].specs[i], user).ret

Children == 1..Len(heap[last.spec].specs)

\* C1: And(children).IsSatisfiedBy(user) is true iff every child's
\* IsSatisfiedBy(user) is true; And() with no children is satisfied.
C1_AndIffEveryChild ==
    Evaluated("And") =>
        /\ last.ret = (\A i \in Children : ChildResult(i))
        /\ (Children = {} => last.ret)

C1_Witness ==
    /\ Evaluated("And")
    /\ Len(heap[last.spec].specs) = 2
    /\ ChildResult(1)
    /\ ~ChildResult(2)
    /\ ~last.ret

\* C2: Or(children).IsSatisfiedBy(user) is true iff at least one child's
\* IsSatisfiedBy(user) is true; Or() with no children is not satisfied.
C2_OrIffSomeChild ==
    Evaluated("Or") =>
        /\ last.ret = (\E i \in Children : ChildResult(i))
        /\ (Children = {} => ~last.ret)

C2_Witness ==
    /\ Evaluated("Or")
    /\ Len(heap[last.spec].specs) = 2
    /\ ChildResult(1)
    /\ ~ChildResult(2)
    /\ last.ret

\* C3: one call of the gate either finds the specification unsatisfied,
\* returns the access-denied error (gate name and user) and does not invoke
\* the handler, or finds it satisfied, invokes the handler exactly once and
\* returns nil; the handler runs iff the specification is satisfied.
HandlerLines == {k \in 1..Len(out) : out[k] = <<"execute", gate.handler>>}

C3_GateDeniesOrRunsHandlerOnce ==
    last.op = "gate" =>
        LET sat == IsSatisfiedBy(heap, gate.spec, user).ret
        IN /\ ~sat => /\ ~err.nil
                      /\ err.msg = <<gate.name, "access denied", String(user)>>
                      /\ handlerCalls = 0
           /\ sat => err.nil /\ handlerCalls = 1
           /\ (handlerCalls > 0) = sat
           /\ Cardinality(HandlerLines) = handlerCalls

C3_Witness ==
    /\ last.op = "gate"
    /\ ~IsSatisfiedBy(heap, gate.spec, user).ret
    /\ ~err.nil
    /\ handlerCalls = 0

\* C4: Not(child).IsSatisfiedBy(user) is the negation of
\* child.IsSatisfiedBy(user), so Not(Not(P)) gives the result of P.
C4_NotNegatesAndDoubleNotIsIdentity ==
    Evaluated("Not") =>
        LET child == heap[last.spec].spec
        IN /\ last.ret = ~IsSatisfiedBy(heap, child, user).ret
           /\ heap[child].kind = "Not" =>
                  last.ret = IsSatisfiedBy(heap, heap[child].spec, user).ret

C4_Witness ==
    /\ Evaluated("Not")
    /\ heap[heap[last.spec].spec].kind = "Not"
    /\ last.ret

\* what "the case of a letter is changed" means: unicode.ToUpper, next to
\* unicode.ToLower above
ToUpperRune(r) ==
    IF r >= 97 /\ r <= 122 THEN r - 32
    ELSE IF r >= 945 /\ r <= 961 THEN r - 32
    ELSE IF r = 962 THEN 931
    ELSE IF r >= 963 /\ r <= 971 THEN r - 32
    ELSE r

CaseForms(r) == {r, ToUpperRune(r), ToLowerRune(r)}

\* the names that differ from s in the case of the letter at one position
CaseChanged(s) ==
    UNION {{[s EXCEPT ![i] = c] : c \in CaseForms(s[i])} : i \in 1..Len(s)}

\* the two names are equal when letter case is ignored
EqualIgnoringCase(s, t) ==
    /\ Len(s) = Len(t)
    /\ \A i \in 1..Len(s) : CaseForms(s[i]) \cap CaseForms(t[i]) # {}

\* C5: Name(n).IsSatisfiedBy(user) is true iff the user's name equals n
\* when letter case is ignored, and the result does not change when the case
\* of a letter of the configured name or of the user's name is changed.
C5_NameEqualIgnoringCase ==
    Evaluated("Name") =>
        LET n == args[last.spec]
        IN /\ last.ret = EqualIgnoringCase(user.Name, n)
           /\ \A m \in CaseChanged(user.Name) :
                  IsSatisfiedBy(heap, last.spec, [user EXCEPT !.Name = m]).ret
                      = last.ret
           /\ \A m \in CaseChanged(n) :
                  IsSatisfiedBy(<<Name(m)>>, 1, user).ret = last.ret

\* the number of bytes of the UTF-8 encoding of s, counted rune class by class
ByteLength(s) ==
    Len(s) + Cardinality({i \in 1..Len(s) : s[i] >= 128})
           + Cardinality({i \in 1..Len(s) : s[i] >= 2048})
           + Cardinality({i \in 1..Len(s) : s[i] >= 65536})

\* C6: NameShort(l).IsSatisfiedBy(user) is true iff the length of the user's
\* name (len: its bytes) is at most l: length l satisfies, length l+1 does
\* not, and a negative l is satisfied by no user.
C6_NameShortIffLengthAtMost ==
    Evaluated("NameLength") =>
        LET l == heap[last.spec].l
            n == ByteLength(user.Name)
        IN /\ last.ret = (n <= l)
           /\ n = l => last.ret
           /\ n = l + 1 => ~last.ret
           /\ l < 0 => ~last.ret

C6_Witness ==
    /\ Evaluated("NameLength")
    /\ ByteLength(user.Name) = heap[last.spec].l
    /\ ByteLength(user.Name) > 0
    /\ last.ret

\* C7: evaluating a specification returns a boolean and leaves the user and
\* every specification as they were, so that evaluating it again on the same
\* user returns the same result.
C7_EvaluationIsPure ==
    [][last'.op \in {"eval", "gate"} =>
          /\ user' = user
          /\ heap' = heap
          /\ last'.ret \in BOOLEAN
          /\ IsSatisfiedBy(heap', last'.spec, user').ret = last'.ret]_vars

C7_Witness ==
    /\ last.op = "eval"
    /\ last.spec = ValidNameNotAdmin
    /\ user.Name # ToLower(user.Name)
    /\ last.ret

\* C8: for the user Admin "Alex", AnyAdmin is satisfied and IsSuperAdmin is
\* not; the gate on IsSuperAdmin denies that user without running its handler
\* and runs its handler and returns nil for a SuperAdmin user.
C8_AdminExample ==
    /\ (last.op = "eval" /\ user = MainUser /\ last.spec = AnyAdmin) => last.ret
    /\ (last.op = "eval" /\ user = MainUser /\ last.spec = IsSuperAdmin)
           => ~last.ret
    /\ (last.op = "gate" /\ gate.spec = IsSuperAdmin /\ user = MainUser)
           => ~err.nil /\ handlerCalls = 0
    /\ (last.op = "gate" /\ gate.spec = IsSuperAdmin /\ user.Type = SuperAdmin)
           => err.nil /\ handlerCalls = 1

C8_Witness ==
    /\ last.op = "gate"
    /\ gate.spec = IsSuperAdmin
    /\ user = SupAdminUser
    /\ err.nil
    /\ handlerCalls = 1

\* C9: a combinator evaluates its children in list order, each once, up to
\* and including the first deciding child (the first unsatisfied child of an
\* And, the first satisfied child of an Or) and none after it.
Deciding(kind) ==
    {i \in Children : ChildResult(i) = (kind = "Or")}

Evaluations(i) == {k \in 1..Len(last.calls) : last.calls[k].pos = i}

C9_ShortCircuitInListOrder ==
    \A kind \in {"And", "Or"} :
        Evaluated(kind) =>
            LET specs == heap[last.spec].specs
                stop == IF Deciding(kind) = {} THEN Len(specs)
                        ELSE CHOOSE i \in Deciding(kind) :
                                 \A j \in Deciding(kind) : i <= j
            IN /\ Len(last.calls) = stop
               /\ \A k \in 1..Len(last.calls) :
                      /\ last.calls[k].pos = k
                      /\ last.calls[k].spec = specs[k]
               /\ \A i \in Children :
                      Cardinality(Evaluations(i)) = IF i <= stop THEN 1 ELSE 0

C9_Witness ==
    /\ Evaluated("And")
    /\ Len(heap[last.spec].specs) = 2
    /\ ~ChildResult(1)
    /\ Len(last.calls) = 1

\* C10: ValidNameNotAdmin is satisfied iff the user is Personal, not locked
\* and has a name longer than 4; its gate denies the Admin "Alex" and the
\* locked "BooFooLocked" and grants the unlocked "BooFoo".
C10_ValidNameNotAdmin ==
    /\ (last.op \in {"eval", "gate"} /\ last.spec = ValidNameNotAdmin) =>
           last.ret = (/\ user.Type = Personal
                       /\ ~user.Locked
                       /\ ByteLength(user.Name) > 4)
    /\ (last.op = "gate" /\ gate.spec = ValidNameNotAdmin) =>
           /\ user \in {MainUser, BooFooLockedUser} =>
                  ~err.nil /\ handlerCalls = 0
           /\ user = BooFooUser => err.nil /\ handlerCalls = 1

C10_Witness ==
    /\ last.op = "gate"
    /\ gate.spec = ValidNameNotAdmin
    /\ user = BooFooUser
    /\ err.nil
    /\ handlerCalls = 1

====
